---------------------------- MODULE Spec2Model ----------------------------
(***************************************************************************)
(* A model of the sql-driver command line tool (src/main.py, src/utils.py, *)
(* src/driver.py, src/schemas.py).                                         *)
(*                                                                         *)
(* One process invocation is one step: main() parses the arguments,        *)
(* builds the Driver, dispatches one command against the database and      *)
(* prints one Answer.  The database is the only state that survives an     *)
(* invocation; the other variables record what the last invocation was     *)
(* given, what it asked of the database and what it printed.               *)
(*                                                                         *)
(* Text is a sequence of one-character strings, so that strip(), lower(),  *)
(* split('=') and the camel-case conversion are computed, not assumed.     *)
(*                                                                         *)
(* The database behind SQLAlchemy / alembic is an external collaborator.   *)
(* It is modelled as a list of tables (columns and rows) on which a DDL or *)
(* DML statement takes effect when it is executed, and which may reject    *)
(* any statement (the choice `rej` of each step).                          *)
(***************************************************************************)
EXTENDS Integers, Sequences, FiniteSets, TLC

VARIABLES
    db,       \* the database: a sequence of [title, columns, rows]
    pre,      \* the database as it was before the last invocation
    argv,     \* sys.argv[1:] of the last invocation
    stdout,   \* what the last invocation printed
    exit,     \* its exit status: 0, or 1 for an uncaught exception
    ops,      \* the statements it sent to the database, in order
    ran,      \* whether a process has run yet
    castIn,   \* the last direct call of cast_sql_value: its arguments
    castOut   \* ... and its outcome

vars == <<db, pre, argv, stdout, exit, ops, ran, castIn, castOut>>

-----------------------------------------------------------------------------
(* Text *)

None == [some |-> FALSE]
Some(s) == [some |-> TRUE, s |-> s]

Upper == <<"A", "B", "C", "D", "E", "F", "G", "H", "I", "J", "K", "L", "M", "N", "O", "P", "Q", "R", "S", "T", "U", "V", "W", "X", "Y", "Z">>
Lower == <<"a", "b", "c", "d", "e", "f", "g", "h", "i", "j", "k", "l", "m", "n", "o", "p", "q", "r", "s", "t", "u", "v", "w", "x", "y", "z">>
Digits == <<"0", "1", "2", "3", "4", "5", "6", "7", "8", "9">>
HexDigits == <<"0", "1", "2", "3", "4", "5", "6", "7", "8", "9", "a", "b", "c", "d", "e", "f">>
B64Alphabet == <<"A", "B", "C", "D", "E", "F", "G", "H", "I", "J", "K", "L", "M", "N", "O", "P", "Q", "R", "S", "T", "U", "V", "W", "X", "Y", "Z", "a", "b", "c", "d", "e", "f", "g", "h", "i", "j", "k", "l", "m", "n", "o", "p", "q", "r", "s", "t", "u", "v", "w", "x", "y", "z", "0", "1", "2", "3", "4", "5", "6", "7", "8", "9", "+", "/">>
Whitespace == {" ", "\t"}

Range(s) == {s[i] : i \in DOMAIN s}
IndexIn(c, tbl) == CHOOSE i \in DOMAIN tbl : tbl[i] = c
IsUpper(c) == c \in Range(Upper)
IsLower(c) == c \in Range(Lower)
IsDigit(c) == c \in Range(Digits)

\* str.lower(), one character
LowerChar(c) == IF IsUpper(c) THEN Lower[IndexIn(c, Upper)] ELSE c
\* str.lower()
LowerStr(s) == [i \in DOMAIN s |-> LowerChar(s[i])]

RECURSIVE LStripSet(_, _)
LStripSet(s, cs) == IF s # <<>> /\ Head(s) \in cs THEN LStripSet(Tail(s), cs) ELSE s
RECURSIVE RStripSet(_, _)
RStripSet(s, cs) ==
    IF s # <<>> /\ s[Len(s)] \in cs THEN RStripSet(SubSeq(s, 1, Len(s) - 1), cs) ELSE s
\* str.strip()
Strip(s) == RStripSet(LStripSet(s, Whitespace), Whitespace)

\* str.startswith(p)
StartsWith(s, p) == Len(s) >= Len(p) /\ SubSeq(s, 1, Len(p)) = p

\* the position of the first character of s that is in cs, 0 when none
FirstIn(s, cs) ==
    IF \E i \in DOMAIN s : s[i] \in cs
    THEN CHOOSE i \in DOMAIN s : s[i] \in cs /\ \A j \in 1..(i - 1) : s[j] \notin cs
    ELSE 0

\* str.split(sep): the pieces between the occurrences of the character sep
RECURSIVE Split(_, _)
Split(s, sep) ==
    LET i == FirstIn(s, {sep})
    IN  IF i = 0 THEN <<s>>
        ELSE <<SubSeq(s, 1, i - 1)>> \o Split(SubSeq(s, i + 1, Len(s)), sep)

RECURSIVE Filter(_, _)
Filter(s, cs) ==
    IF s = <<>> THEN <<>>
    ELSE (IF Head(s) \in cs THEN <<Head(s)>> ELSE <<>>) \o Filter(Tail(s), cs)

\* to_snake_case: re.sub(r'([a-z])([A-Z])', r'\1_\2', text), before .lower()
RECURSIVE SnakeSub(_)
SnakeSub(s) ==
    IF Len(s) < 2 THEN s
    ELSE IF IsLower(s[1]) /\ IsUpper(s[2])
         THEN <<s[1], "_", s[2]>> \o SnakeSub(SubSeq(s, 3, Len(s)))
         ELSE <<s[1]>> \o SnakeSub(Tail(s))

\* utils.to_snake_case, on an optional text
to_snake_case(text) ==
    IF ~text.some THEN None ELSE Some(LowerStr(SnakeSub(text.s)))

\* a piece of a message: a literal of the program, or a text put into it
L(str) == [lit |-> str, txt |-> <<>>]
V(chars) == [lit |-> "", txt |-> chars]
\* how an optional text is formatted by an f-string
Fmt(o) == IF o.some THEN o.s ELSE <<"N", "o", "n", "e">>

\* an exception: its class and the pieces of str(e)
Exc(class, msg) == [class |-> class, msg |-> msg]

-----------------------------------------------------------------------------
(* Literals accepted by the parsers of the Python library *)

\* digits, single underscores allowed between them
DigitRun(s) ==
    /\ s # <<>>
    /\ \A i \in DOMAIN s : IsDigit(s[i]) \/ s[i] = "_"
    /\ IsDigit(s[1]) /\ IsDigit(s[Len(s)])
    /\ \A i \in 1..(Len(s) - 1) : ~(s[i] = "_" /\ s[i + 1] = "_")

Unsigned(s) == IF s # <<>> /\ s[1] \in {"+", "-"} THEN Tail(s) ELSE s

\* int(s), base 10
IntLit(s) == DigitRun(Unsigned(s))

RECURSIVE DigitsVal(_, _)
DigitsVal(s, acc) ==
    IF s = <<>> THEN acc
    ELSE DigitsVal(Tail(s), IF Head(s) = "_" THEN acc ELSE acc * 10 + (IndexIn(Head(s), Digits) - 1))

IntVal(s) == (IF s[1] = "-" THEN -1 ELSE 1) * DigitsVal(Unsigned(s), 0)

\* digits [. [digits]] | . digits
PointLit(s) ==
    LET i == FirstIn(s, {"."})
    IN  IF i = 0 THEN DigitRun(s)
        ELSE LET a == SubSeq(s, 1, i - 1)
                 b == SubSeq(s, i + 1, Len(s))
             IN  /\ a # <<>> \/ b # <<>>
                 /\ a = <<>> \/ DigitRun(a)
                 /\ b = <<>> \/ DigitRun(b)

\* a decimal number with an optional exponent, or one of the special names
NumberLit(s, specials) ==
    LET u == Unsigned(s)
        e == FirstIn(u, {"e", "E"})
    IN  \/ LowerStr(u) \in specials
        \/ e = 0 /\ PointLit(u)
        \/ /\ e > 0
           /\ PointLit(SubSeq(u, 1, e - 1))
           /\ IntLit(SubSeq(u, e + 1, Len(u)))

\* float(s)
FloatLit(s) == NumberLit(s, {<<"i", "n", "f">>, <<"i", "n", "f", "i", "n", "i", "t", "y">>, <<"n", "a", "n">>})
\* decimal.Decimal(s)
DecimalLit(s) == NumberLit(s, {<<"i", "n", "f">>, <<"i", "n", "f", "i", "n", "i", "t", "y">>, <<"n", "a", "n">>, <<"s", "n", "a", "n">>})

AllDigits(s) == \A i \in DOMAIN s : IsDigit(s[i])
Num(s) == DigitsVal(s, 0)

IsLeap(y) == y % 4 = 0 /\ (y % 100 # 0 \/ y % 400 = 0)
DaysIn(y, m) ==
    IF m = 2 THEN (IF IsLeap(y) THEN 29 ELSE 28)
    ELSE IF m \in {4, 6, 9, 11} THEN 30 ELSE 31

\* date.fromisoformat(s): YYYY-MM-DD
DateLit(s) ==
    /\ Len(s) = 10
    /\ s[5] = "-" /\ s[8] = "-"
    /\ AllDigits(SubSeq(s, 1, 4)) /\ AllDigits(SubSeq(s, 6, 7)) /\ AllDigits(SubSeq(s, 9, 10))
    /\ LET y == Num(SubSeq(s, 1, 4))
           m == Num(SubSeq(s, 6, 7))
           d == Num(SubSeq(s, 9, 10))
       IN  y >= 1 /\ m \in 1..12 /\ d \in 1..DaysIn(y, m)

\* time.fromisoformat(s): HH[:MM[:SS]]
TimeLit(s) ==
    /\ Len(s) \in {2, 5, 8}
    /\ \A i \in DOMAIN s : IF i \in {3, 6} THEN s[i] = ":" ELSE IsDigit(s[i])
    /\ Num(SubSeq(s, 1, 2)) \in 0..23
    /\ Len(s) >= 5 => Num(SubSeq(s, 4, 5)) \in 0..59
    /\ Len(s) >= 8 => Num(SubSeq(s, 7, 8)) \in 0..59

\* datetime.fromisoformat(s): a date, or a date, a separator and a time
DateTimeLit(s) ==
    \/ DateLit(s)
    \/ /\ Len(s) > 11
       /\ DateLit(SubSeq(s, 1, 10))
       /\ s[11] \in {"T", " "}
       /\ TimeLit(SubSeq(s, 12, Len(s)))

\* uuid.UUID(s): 32 hexadecimal digits once urn:, uuid:, braces and hyphens are removed
UuidHex(s) ==
    LET a == IF StartsWith(s, <<"u", "r", "n", ":">>) THEN SubSeq(s, 5, Len(s)) ELSE s
        b == IF StartsWith(a, <<"u", "u", "i", "d", ":">>) THEN SubSeq(a, 6, Len(a)) ELSE a
        c == RStripSet(LStripSet(b, {"{", "}"}), {"{", "}"})
    IN  LowerStr(Filter(c, Range(c) \ {"-"}))
UuidLit(s) == Len(UuidHex(s)) = 32 /\ Range(UuidHex(s)) \subseteq Range(HexDigits)

\* base64.b64decode(s): characters outside the alphabet are discarded; the data
\* characters must come in fours once the padding is counted
B64Data(s) == Filter(s, Range(B64Alphabet))
B64Pad(s) == Len(Filter(s, {"="}))
B64Lit(s) ==
    LET n == Len(B64Data(s)) % 4
    IN  \/ n = 0
        \/ n = 2 /\ B64Pad(s) >= 2
        \/ n = 3 /\ B64Pad(s) >= 1

\* the bytes of a run of base64 characters
RECURSIVE B64Bytes(_)
B64Bytes(d) ==
    LET v(i) == IndexIn(d[i], B64Alphabet) - 1
    IN  IF Len(d) < 2 THEN <<>>
        ELSE IF Len(d) = 2 THEN <<v(1) * 4 + v(2) \div 16>>
        ELSE IF Len(d) = 3 THEN <<v(1) * 4 + v(2) \div 16, (v(2) % 16) * 16 + v(3) \div 4>>
        ELSE <<v(1) * 4 + v(2) \div 16, (v(2) % 16) * 16 + v(3) \div 4, (v(3) % 4) * 64 + v(4)>>
             \o B64Bytes(SubSeq(d, 5, Len(d)))

-----------------------------------------------------------------------------
(* src/schemas.py: the type catalog; src/utils.py: cast_sql_value *)

ColumnTypes ==
    {"ARRAY", "BIGINT", "BINARY", "BLOB", "BOOLEAN", "CHAR", "CLOB", "DATE", "DATETIME",
     "DECIMAL", "DOUBLE", "FLOAT", "INT", "INTEGER", "JSON", "NCHAR", "NULLTYPE",
     "NUMERIC", "NVARCHAR", "REAL", "SMALLINT", "STRINGTYPE", "TEXT", "TIME",
     "TIMESTAMP", "UUID", "VARBINARY", "VARCHAR", "DOUBLE_PRECISION"}

\* typed values
NULL == [k |-> "null"]
IntV(n) == [k |-> "int", n |-> n]
StrV(s) == [k |-> "str", s |-> s]
BoolV(b) == [k |-> "bool", b |-> b]
\* a parsed number, date, time or uuid stands as the literal that was parsed
LitV(kind, s) == [k |-> kind, lit |-> s]
BytesV(bs) == [k |-> "bytes", bytes |-> bs]

Ok(v) == [ok |-> TRUE, val |-> v]
Raise(e) == [ok |-> FALSE, exc |-> e]

\* int(s): surrounding whitespace is allowed
PyInt(s) ==
    IF IntLit(Strip(s)) THEN Ok(IntV(IntVal(Strip(s))))
    ELSE Raise(Exc("ValueError", <<L("invalid literal for int() with base 10: '"), V(s), L("'")>>))

TrueWords == {<<"1">>, <<"t", "r", "u", "e">>, <<"y", "e", "s">>, <<"o", "n">>}

\* the match statement of cast_sql_value, on the stripped text
MatchType(s, column_type) ==
    CASE column_type \in {"INTEGER", "SMALLINT", "BIGINT"} -> PyInt(s)
      [] column_type \in {"REAL", "FLOAT", "DOUBLE", "DOUBLE_PRECISION"} ->
            IF FloatLit(s) THEN Ok(LitV("float", s))
            ELSE Raise(Exc("ValueError", <<L("could not convert string to float: '"), V(s), L("'")>>))
      [] column_type \in {"NUMERIC", "DECIMAL"} ->
            IF DecimalLit(s) THEN Ok(LitV("decimal", s))
            ELSE Raise(Exc("InvalidOperation", <<L("[<class 'decimal.ConversionSyntax'>]")>>))
      [] column_type = "BOOLEAN" -> Ok(BoolV(LowerStr(s) \in TrueWords))
      [] column_type \in {"TIMESTAMP", "DATETIME"} ->
            IF DateTimeLit(s) THEN Ok(LitV("datetime", s))
            ELSE Raise(Exc("ValueError", <<L("Invalid isoformat string: '"), V(s), L("'")>>))
      [] column_type = "DATE" ->
            IF DateLit(s) THEN Ok(LitV("date", s))
            ELSE Raise(Exc("ValueError", <<L("Invalid isoformat string: '"), V(s), L("'")>>))
      [] column_type = "TIME" ->
            IF TimeLit(s) THEN Ok(LitV("time", s))
            ELSE Raise(Exc("ValueError", <<L("Invalid isoformat string: '"), V(s), L("'")>>))
      [] column_type = "UUID" ->
            IF UuidLit(s) THEN Ok(LitV("uuid", UuidHex(s)))
            ELSE Raise(Exc("ValueError", <<L("badly formed hexadecimal UUID string")>>))
      [] column_type \in {"BLOB", "BINARY", "VARBINARY"} ->
            IF B64Lit(s) THEN Ok(BytesV(B64Bytes(B64Data(s))))
            ELSE Raise(Exc("binascii.Error", <<L("Incorrect padding")>>))
      [] column_type \in {"TEXT", "CLOB", "VARCHAR", "NVARCHAR", "CHAR", "NCHAR"} -> Ok(StrV(s))
      [] OTHER -> Raise(Exc("ValueError", <<L("Unknown column type: "), L(column_type)>>))

\* the error every failure inside the try block is turned into
CastError(s, column_type, e) ==
    Exc("ValueError",
        <<L("Error while casting value '"), V(s), L("' of type "), L(column_type), L(": ")>>
            \o e.msg)

\* cast_sql_value, had it no except clause
NoExcept(r, s, column_type) == r

\* the except clause of cast_sql_value: r is what the match statement gave
Except(r, s, column_type) == IF r.ok THEN r ELSE Raise(CastError(s, column_type, r.exc))

\* utils.cast_sql_value; value_str is an optional text
cast_sql_value(value_str, column_type) ==
    IF ~value_str.some THEN Ok(NULL)
    ELSE Except(MatchType(Strip(value_str.s), column_type), Strip(value_str.s), column_type)

-----------------------------------------------------------------------------
(* src/schemas.py: the schema model *)

Column(name, nullable, primary_key, type) ==
    [name |-> name, nullable |-> nullable, primary_key |-> primary_key, type |-> type]
TableSchema(title, columns) == [title |-> title, columns |-> columns]
TableData(title, columns, data, page, count) ==
    [title |-> title, columns |-> columns, data |-> data, page |-> page, count |-> count]
SchemaListData(items) == [items |-> items]

\* a result of a command, with the name of its class
Obj(cls, v) == [cls |-> cls, v |-> v]

NoData == [cls |-> "NoneType"]
\* schemas.Answer
Answer(ok, data_type, data, error_message) ==
    [ok |-> ok, data_type |-> data_type, data |-> data, error_message |-> error_message]

\* str(value) of a cell (the tables of the model hold integers, texts and booleans)
RECURSIVE NatStr(_)
NatStr(n) == IF n < 10 THEN <<Digits[n + 1]>> ELSE Append(NatStr(n \div 10), Digits[(n % 10) + 1])
PyStr(v) ==
    CASE v.k = "null" -> <<"N", "o", "n", "e">>
      [] v.k = "int" -> IF v.n < 0 THEN <<"-">> \o NatStr(-v.n) ELSE NatStr(v.n)
      [] v.k = "str" -> v.s
      [] v.k = "bool" -> IF v.b THEN <<"T", "r", "u", "e">> ELSE <<"F", "a", "l", "s", "e">>

-----------------------------------------------------------------------------
(* The database, as SQLAlchemy and alembic show it *)

Names(columns) == [i \in DOMAIN columns |-> columns[i].name]
HasColumn(columns, name) == \E i \in DOMAIN columns : columns[i].name = name

TableIndex(d, title) ==
    IF \E i \in DOMAIN d : d[i].title = title
    THEN CHOOSE i \in DOMAIN d : d[i].title = title
    ELSE 0
HasTable(d, title) == TableIndex(d, title) # 0
TableOf(d, title) == d[TableIndex(d, title)]

\* a statement sent to the database, and whether the database carried it out
Op(op, table, arg, ok) == [op |-> op, table |-> table, arg |-> arg, ok |-> ok]
ReflectOp == Op("reflect", <<>>, <<>>, TRUE)

\* the error of a statement the database rejects
DbError(stmt, table) == Exc("OperationalError", <<L(stmt), L(" rejected by the database: "), V(table)>>)

\* ALTER TABLE title ADD COLUMN, carried out
DbAddColumn(d, title, col) ==
    [d EXCEPT ![TableIndex(d, title)].columns = Append(@, col)]

RECURSIVE SeqWithout(_, _)
SeqWithout(columns, name) ==
    IF columns = <<>> THEN <<>>
    ELSE (IF Head(columns).name = name THEN <<>> ELSE <<Head(columns)>>)
            \o SeqWithout(Tail(columns), name)

\* ALTER TABLE title DROP COLUMN, carried out: the column and its cells go
DbDropColumn(d, title, name) ==
    [d EXCEPT ![TableIndex(d, title)] =
        [@ EXCEPT !.columns = SeqWithout(@, name),
                  !.rows = [i \in DOMAIN @ |-> [n \in (DOMAIN @[i]) \ {name} |-> @[i][n]]]]]

\* CREATE TABLE, carried out
DbCreateTable(d, schema) ==
    Append(d, [title |-> schema.title, columns |-> schema.columns, rows |-> <<>>])

\* DROP TABLE, carried out
DbDropTable(d, title) ==
    LET i == TableIndex(d, title)
    IN  SubSeq(d, 1, i - 1) \o SubSeq(d, i + 1, Len(d))

IntTypes == {"INTEGER", "SMALLINT", "BIGINT", "INT"}

\* INSERT, carried out: a row holds the given values; an integer primary key that
\* was given no value takes the next row number (the default of the database)
DbInsert(d, title, values) ==
    LET t == TableOf(d, title)
        auto == {t.columns[i].name : i \in {j \in DOMAIN t.columns :
                    /\ t.columns[j].primary_key
                    /\ t.columns[j].type \in IntTypes
                    /\ t.columns[j].name \notin DOMAIN values}}
        row == [n \in (DOMAIN values) \cup auto |->
                    IF n \in DOMAIN values THEN values[n] ELSE IntV(Len(t.rows) + 1)]
    IN  [d EXCEPT ![TableIndex(d, title)].rows = Append(@, row)]

\* a row as the tuple a SELECT returns: a cell per column, NULL where none is stored
RowTuple(columns, row) ==
    [i \in DOMAIN columns |->
        IF columns[i].name \in DOMAIN row THEN row[columns[i].name] ELSE NULL]

\* SELECT * FROM title OFFSET offset LIMIT limit; a negative offset that the
\* database accepts selects from the first row
DbSelect(d, title, offset, limit) ==
    LET t == TableOf(d, title)
        first == (IF offset < 0 THEN 0 ELSE offset) + 1
        last == IF first + limit - 1 < Len(t.rows) THEN first + limit - 1 ELSE Len(t.rows)
    IN  [i \in 1..(IF last >= first THEN last - first + 1 ELSE 0) |->
            RowTuple(t.columns, t.rows[first + i - 1])]

-----------------------------------------------------------------------------
(* src/utils.py: parse_args *)

\* an argument of the command line: its text, and what the text holds when it is
\* read as JSON (NoJson for a text that is no JSON object)
NoJson == [kind |-> "none"]
Word(s) == [txt |-> s, json |-> NoJson]
Json(kind, v) == [txt |-> <<"{">>, json |-> [kind |-> kind, v |-> v]]

\* dict[key] = value
DictSet(f, key, value) == [k \in (DOMAIN f) \cup {key} |-> IF k = key THEN value ELSE f[k]]
\* the dict without some keys (dict.pop)
DictPop(f, keys) == [k \in (DOMAIN f) \ keys |-> f[k]]
EmptyDict == [k \in {} |-> <<>>]

\* `not command`: no command yet, or an empty one
Falsy(command) == ~command.some \/ command.s.txt = <<>>

\* the loop of parse_args over sys.argv[1:]
RECURSIVE ParseLoop(_, _)
ParseLoop(args, acc) ==
    IF args = <<>> \/ ~acc.ok THEN acc
    ELSE LET arg == Head(args)
         IN  IF StartsWith(arg.txt, <<"-", "-">>)
             THEN LET parts == Split(SubSeq(arg.txt, 3, Len(arg.txt)), "=")
                  IN  IF Len(parts) # 2
                      THEN [acc EXCEPT !.ok = FALSE]   \* key, value = ... cannot unpack
                      ELSE ParseLoop(Tail(args),
                                [acc EXCEPT !.kwargs = DictSet(@, parts[1], parts[2])])
             ELSE IF Falsy(acc.command)
             THEN ParseLoop(Tail(args), [acc EXCEPT !.command = Some(arg)])
             ELSE ParseLoop(Tail(args), [acc EXCEPT !.command_args = Append(@, arg)])

\* utils.parse_args: ok is FALSE when it raises
parse_args(args) ==
    LET r == ParseLoop(args, [ok |-> TRUE, kwargs |-> EmptyDict, command |-> None,
                              command_args |-> <<>>])
    IN  [r EXCEPT !.command = to_snake_case(IF @.some THEN Some(@.s.txt) ELSE None)]

-----------------------------------------------------------------------------
(* src/driver.py: Interface *)

_PAGE_SIZE == 100
DefaultTimeout == 15

K_db == <<"d", "b">>
K_path == <<"p", "a", "t", "h">>
K_host == <<"h", "o", "s", "t">>
K_user == <<"u", "s", "e", "r">>
K_password == <<"p", "a", "s", "s", "w", "o", "r", "d">>
K_database == <<"d", "a", "t", "a", "b", "a", "s", "e">>
K_port == <<"p", "o", "r", "t">>
K_echo == <<"e", "c", "h", "o">>
K_timeout == <<"t", "i", "m", "e", "o", "u", "t">>
K_debug == <<"d", "e", "b", "u", "g">>
K_page == <<"p", "a", "g", "e">>

AttributeError(msg) == Exc("AttributeError", msg)

\* bool(text)
Truthy(s) == s # <<>>

\* the engine and the attributes that __init__ sets, once the url is known
NewDriver(kwargs, db_url) ==
    LET timeout == IF K_timeout \in DOMAIN kwargs THEN PyInt(kwargs[K_timeout])
                   ELSE Ok(IntV(DefaultTimeout))
    IN  IF ~timeout.ok THEN timeout
        ELSE Ok([kwargs |-> kwargs,
                 db_url |-> db_url,
                 echo |-> K_echo \in DOMAIN kwargs /\ Truthy(kwargs[K_echo]),
                 pool_timeout |-> timeout.val.n,
                 debug |-> K_debug \in DOMAIN kwargs /\ Truthy(kwargs[K_debug])])

\* Interface.__init__
Interface_init(kwargs) ==
    LET need(k) == AttributeError(<<V(k), L(" is required for "), V(kwargs[K_db])>>)
    IN  IF K_db \notin DOMAIN kwargs THEN Raise(AttributeError(<<L("db is required")>>))
        ELSE IF kwargs[K_db] = <<"s", "q", "l", "i", "t", "e">>
        THEN IF K_path \notin DOMAIN kwargs
             THEN Raise(AttributeError(<<L("path is required for sqlite")>>))
             ELSE NewDriver(DictPop(kwargs, {K_path}),
                            <<L("sqlite:////"), V(kwargs[K_path])>>)
        ELSE IF kwargs[K_db] \in {<<"m", "y", "s", "q", "l">>, <<"p", "o", "s", "t", "g", "r", "e", "s", "q", "l">>}
        THEN IF K_host \notin DOMAIN kwargs THEN Raise(need(K_host))
             ELSE IF K_user \notin DOMAIN kwargs THEN Raise(need(K_user))
             ELSE IF K_password \notin DOMAIN kwargs THEN Raise(need(K_password))
             ELSE IF K_database \notin DOMAIN kwargs THEN Raise(need(K_database))
             ELSE LET address == <<V(kwargs[K_host])>> \o
                                    (IF K_port \in DOMAIN kwargs
                                     THEN <<L(":"), V(kwargs[K_port])>> ELSE <<>>)
                      scheme == IF kwargs[K_db] = <<"p", "o", "s", "t", "g", "r", "e", "s", "q", "l">>
                                THEN "postgresql+psycopg2://" ELSE "mysql+pymysql://"
                  IN  NewDriver(
                        DictPop(kwargs, {K_host, K_port, K_user, K_password, K_database}),
                        <<L(scheme), V(kwargs[K_user]), L(":"), V(kwargs[K_password]), L("@")>>
                            \o address \o <<L("/"), V(kwargs[K_database])>>)
        ELSE Raise(AttributeError(<<L("db must be one of [sqlite, mysql, postgresql]")>>))

\* the commands, had one been listed that Driver has no method for
CommandsAndFoo ==
    {<<"c", "o", "n", "n", "e", "c", "t">>, <<"g", "e", "t">>, <<"c", "r", "e", "a", "t", "e", "_", "t", "a", "b", "l", "e">>, <<"a", "l", "t", "e", "r", "_", "t", "a", "b", "l", "e">>, <<"d", "r", "o", "p", "_", "t", "a", "b", "l", "e">>, <<"a", "d", "d", "_", "r", "o", "w">>,
     <<"a", "d", "d", "_", "c", "o", "l", "u", "m", "n">>, <<"f", "o", "o">>}

_available_commands ==
    {<<"c", "o", "n", "n", "e", "c", "t">>, <<"g", "e", "t">>, <<"c", "r", "e", "a", "t", "e", "_", "t", "a", "b", "l", "e">>, <<"a", "l", "t", "e", "r", "_", "t", "a", "b", "l", "e">>, <<"d", "r", "o", "p", "_", "t", "a", "b", "l", "e">>, <<"a", "d", "d", "_", "r", "o", "w">>,
     <<"a", "d", "d", "_", "c", "o", "l", "u", "m", "n">>}

\* TableSchema.model_validate_json / Column.model_validate_json
model_validate_json(kind, arg) ==
    IF arg.json.kind = kind THEN Ok(arg.json.v)
    ELSE Raise(Exc("ValidationError", <<L("validation error for "), L(kind)>>))

TypeError(command) ==
    Exc("TypeError", <<V(command), L("() got a wrong number of positional arguments")>>)

-----------------------------------------------------------------------------
(* src/driver.py: Driver.  A method takes the driver, the database and what  *)
(* the database will reject, and gives the database after it, the statements *)
(* it sent, what it printed and what it returned or raised.                  *)

Res(d, o, out, ret) == [db |-> d, ops |-> o, out |-> out, ret |-> ret]

NotFound(tablename) ==
    Exc("ValueError", <<L("Table tablename='"), V(tablename), L("' not found")>>)

\* Driver._get_table_model, after its metadata.reflect
_get_table_model(d, tablename) ==
    IF HasTable(d, tablename) THEN Ok(TableOf(d, tablename)) ELSE Raise(NotFound(tablename))

\* Driver._get_db_schema, after its metadata.reflect
_get_db_schema(d) == [i \in DOMAIN d |-> TableSchema(d[i].title, d[i].columns)]

\* Driver._get_table_schema
_get_table_schema(d, tablename) ==
    LET tables == _get_db_schema(d)
    IN  IF \E i \in DOMAIN tables : tables[i].title = tablename
        THEN Ok(tables[CHOOSE i \in DOMAIN tables :
                    /\ tables[i].title = tablename
                    /\ \A j \in 1..(i - 1) : tables[j].title # tablename])
        ELSE Raise(NotFound(tablename))

\* Driver.connect
connect(self, d, rj) ==
    Res(d, <<ReflectOp>>, <<>>, Ok(Obj("SchemaListData", SchemaListData(_get_db_schema(d)))))

\* the TableData that get builds from the rows selected and the schema reflected
GetTable(data, table_schema, tablename, pg) ==
    TableData(tablename, table_schema.columns,
              [i \in DOMAIN data |-> [j \in DOMAIN data[i] |-> PyStr(data[i][j])]],
              pg + 1, Len(data))

\* Driver.get from the select on: pg is the page, counted from 0
GetFrom(pg, d, rj, tablename) ==
    LET sel == Op("select", tablename, <<pg * _PAGE_SIZE, _PAGE_SIZE>>, ~rj.stmt)
    IN  IF ~HasTable(d, tablename)
        THEN Res(d, <<ReflectOp>>, <<>>, _get_table_model(d, tablename))
        ELSE IF rj.stmt
        THEN Res(d, <<ReflectOp, sel>>, <<>>, Raise(DbError("select", tablename)))
        ELSE Res(d, <<ReflectOp, sel, ReflectOp>>, <<>>,
                 Ok(Obj("TableData",
                        GetTable(DbSelect(d, tablename, pg * _PAGE_SIZE, _PAGE_SIZE),
                                 _get_table_schema(d, tablename).val, tablename, pg))))

\* Driver.get, had it not taken one from the page
GetPageFromZero(p, d, rj, tablename) ==
    IF ~p.ok THEN Res(d, <<>>, <<>>, p) ELSE GetFrom(p.val.n, d, rj, tablename)

\* Driver.get once int(...) has given p
GetPage(p, d, rj, tablename) ==
    IF ~p.ok THEN Res(d, <<>>, <<>>, p) ELSE GetFrom(p.val.n - 1, d, rj, tablename)

\* Driver.get; page is the optional second positional argument
get(self, d, rj, tablename, page) ==
    GetPage(IF K_page \in DOMAIN self.kwargs THEN PyInt(self.kwargs[K_page])
            ELSE IF page.some THEN PyInt(page.s)
            ELSE Ok(IntV(1)),
            d, rj, tablename)

\* sqlalchemy.Table(title, metadata, *columns): no two columns of one name
DistinctNames(columns) ==
    \A i, j \in DOMAIN columns : columns[i].name = columns[j].name => i = j

\* Driver.create_table
create_table(self, d, rj, data) ==
    IF _get_table_model(d, data.title).ok
    THEN Res(d, <<ReflectOp>>, <<>>,
             Raise(Exc("ValueError", <<L("Table '"), V(data.title), L("' already exists")>>)))
    ELSE IF ~DistinctNames(data.columns)
    THEN Res(d, <<ReflectOp>>, <<>>,
             Raise(Exc("ArgumentError", <<L("duplicate column in table "), V(data.title)>>)))
    ELSE IF rj.stmt
    THEN Res(d, <<ReflectOp, Op("create_table", data.title, data.columns, FALSE)>>, <<>>,
             Raise(DbError("create_table", data.title)))
    ELSE Res(DbCreateTable(d, data),
             <<ReflectOp, Op("create_table", data.title, data.columns, TRUE)>>, <<>>,
             Ok(Obj("TableSchema", data)))

\* the columns as a list, had alter_table not put them in a dict
ListItems(columns) == columns

\* {col.name: col for col in columns}, as its items: a name keeps the place of its
\* first column and the value of its last
DictItems(columns) ==
    LET firsts == {i \in DOMAIN columns :
                      \A j \in 1..(i - 1) : columns[j].name # columns[i].name}
        last(n) == CHOOSE i \in DOMAIN columns :
                      /\ columns[i].name = n
                      /\ \A j \in (i + 1)..Len(columns) : columns[j].name # n
        nth(k) == CHOOSE i \in firsts : Cardinality({j \in firsts : j < i}) = k - 1
    IN  [k \in 1..Cardinality(firsts) |-> columns[last(columns[nth(k)].name)]]

\* the first loop of alter_table: add the columns the table lacks; the first
\* add the database rejects raises
RECURSIVE AddLoop(_, _, _, _, _)
AddLoop(st, title, new_columns, existing_columns, rj) ==
    IF new_columns = <<>> THEN st
    ELSE LET new_col == Head(new_columns)
         IN  IF HasColumn(existing_columns, new_col.name)
             THEN AddLoop(st, title, Tail(new_columns), existing_columns, rj)
             ELSE IF new_col.name \in rj.cols
             THEN [st EXCEPT !.ops = Append(@, Op("add_column", title, new_col, FALSE)),
                             !.ret = Raise(DbError("add_column", new_col.name))]
             ELSE AddLoop([st EXCEPT !.db = DbAddColumn(@, title, new_col),
                                     !.ops = Append(@, Op("add_column", title, new_col, TRUE))],
                          title, Tail(new_columns), existing_columns, rj)

RECURSIVE DropLoop(_, _, _, _, _, _)
\* the second loop, had it not been there
DropNone(st, self, title, existing_columns, new_columns, rj) == st
\* the second loop, had it no try: the first drop the database rejects raises
DropLoopRaise(st, self, title, existing_columns, new_columns, rj) ==
    IF existing_columns = <<>> THEN st
    ELSE LET colname == Head(existing_columns).name
         IN  IF HasColumn(new_columns, colname)
             THEN DropLoop(st, self, title, Tail(existing_columns), new_columns, rj)
             ELSE IF colname \in rj.cols
             THEN [st EXCEPT !.ops = Append(@, Op("drop_column", title, <<colname>>, FALSE)),
                             !.ret = Raise(DbError("drop_column", colname))]
             ELSE DropLoop([st EXCEPT
                              !.db = DbDropColumn(@, title, colname),
                              !.ops = Append(@, Op("drop_column", title, <<colname>>, TRUE))],
                           self, title, Tail(existing_columns), new_columns, rj)

\* the second loop of alter_table: drop the columns the schema lacks; a drop the
\* database rejects is printed when debug is set, and the loop goes on
DropLoop(st, self, title, existing_columns, new_columns, rj) ==
    IF existing_columns = <<>> THEN st
    ELSE LET colname == Head(existing_columns).name
         IN  IF HasColumn(new_columns, colname)
             THEN DropLoop(st, self, title, Tail(existing_columns), new_columns, rj)
             ELSE IF colname \in rj.cols
             THEN DropLoop([st EXCEPT
                              !.ops = Append(@, Op("drop_column", title, <<colname>>, FALSE)),
                              !.out = IF self.debug
                                      THEN Append(@, [kind |-> "print",
                                                      text |-> <<L("Can't drop column "), V(colname)>>])
                                      ELSE @],
                           self, title, Tail(existing_columns), new_columns, rj)
             ELSE DropLoop([st EXCEPT
                              !.db = DbDropColumn(@, title, colname),
                              !.ops = Append(@, Op("drop_column", title, <<colname>>, TRUE))],
                           self, title, Tail(existing_columns), new_columns, rj)

\* alter_table once its first loop is done
AlterDrops(added, self, title, existing_columns, new_columns, rj) ==
    IF ~added.ret.ok THEN added
    ELSE DropLoop(added, self, title, existing_columns, new_columns, rj)

\* alter_table once the schema of the table is fetched
AlterFrom(existing_schema, self, d, rj, data) ==
    IF ~existing_schema.ok THEN Res(d, <<ReflectOp>>, <<>>, existing_schema)
    ELSE AlterDrops(AddLoop(Res(d, <<ReflectOp>>, <<>>, Ok(Obj("TableSchema", data))),
                            data.title, DictItems(data.columns),
                            DictItems(existing_schema.val.columns), rj),
                    self, data.title, DictItems(existing_schema.val.columns),
                    DictItems(data.columns), rj)

\* Driver.alter_table
alter_table(self, d, rj, data) == AlterFrom(_get_table_schema(d, data.title), self, d, rj, data)

\* Driver.drop_table
drop_table(self, d, rj, tablename) ==
    IF ~HasTable(d, tablename)
    THEN Res(d, <<ReflectOp>>, <<>>, _get_table_schema(d, tablename))
    ELSE IF rj.stmt
    THEN Res(d, <<ReflectOp, ReflectOp, Op("drop_table", tablename, <<>>, FALSE)>>, <<>>,
             Raise(DbError("drop_table", tablename)))
    ELSE Res(DbDropTable(d, tablename),
             <<ReflectOp, ReflectOp, Op("drop_table", tablename, <<>>, TRUE)>>, <<>>,
             Ok(Obj("TableSchema", _get_table_schema(d, tablename).val)))

\* the loop of add_row over the columns; i counts the positional values used
\* (the code's i is one less)
RECURSIVE RowLoop(_, _, _, _, _)
\* values[col.name] = v, unless the cast raised
RECURSIVE RowAssign(_, _, _, _, _, _)
RowAssign(v, columns, kwargs, data, i, values) ==
    IF ~v.ok THEN v
    ELSE RowLoop(Tail(columns), kwargs, data, i, DictSet(values, Head(columns).name, v.val))
\* the loop, had it given positional values to primary keys as well
RowLoopAnyColumn(columns, kwargs, data, i, values) ==
    IF columns = <<>> THEN Ok(values)
    ELSE IF Head(columns).name \in DOMAIN kwargs
    THEN RowAssign(cast_sql_value(Some(kwargs[Head(columns).name]), Head(columns).type),
                   columns, kwargs, data, i, values)
    ELSE IF Len(data) > i
    THEN RowAssign(cast_sql_value(Some(data[i + 1].txt), Head(columns).type),
                   columns, kwargs, data, i + 1, values)
    ELSE RowLoop(Tail(columns), kwargs, data, i, values)
RowLoop(columns, kwargs, data, i, values) ==
    IF columns = <<>> THEN Ok(values)
    ELSE IF Head(columns).name \in DOMAIN kwargs
    THEN RowAssign(cast_sql_value(Some(kwargs[Head(columns).name]), Head(columns).type),
                   columns, kwargs, data, i, values)
    ELSE IF ~Head(columns).primary_key /\ Len(data) > i
    THEN RowAssign(cast_sql_value(Some(data[i + 1].txt), Head(columns).type),
                   columns, kwargs, data, i + 1, values)
    ELSE RowLoop(Tail(columns), kwargs, data, i, values)

NoValues == [n \in {} |-> NULL]

\* add_row once the values are cast
AddRowInsert(values, table_schema, d, rj, tablename) ==
    IF ~values.ok THEN Res(d, <<ReflectOp>>, <<>>, values)
    ELSE IF rj.stmt
    THEN Res(d, <<ReflectOp, ReflectOp, Op("insert", tablename, values.val, FALSE)>>,
             <<>>, Raise(DbError("insert", tablename)))
    ELSE Res(DbInsert(d, tablename, values.val),
             <<ReflectOp, ReflectOp, Op("insert", tablename, values.val, TRUE)>>,
             <<>>, Ok(Obj("TableSchema", table_schema)))

\* Driver.add_row
add_row(self, d, rj, tablename, data) ==
    IF ~HasTable(d, tablename)
    THEN Res(d, <<ReflectOp>>, <<>>, _get_table_schema(d, tablename))
    ELSE AddRowInsert(RowLoop(_get_table_schema(d, tablename).val.columns, self.kwargs,
                              data, 0, NoValues),
                      _get_table_schema(d, tablename).val, d, rj, tablename)

\* Driver.add_column: the statement goes to the database first, which rejects it
\* for a table it does not have or a column the table already has
add_column(self, d, rj, tablename, data) ==
    IF \/ ~HasTable(d, tablename)
       \/ HasColumn(TableOf(d, tablename).columns, data.name)
       \/ data.name \in rj.cols
    THEN Res(d, <<Op("add_column", tablename, data, FALSE)>>, <<>>,
             Raise(DbError("add_column", tablename)))
    ELSE Res(DbAddColumn(d, tablename, data),
             <<Op("add_column", tablename, data, TRUE), ReflectOp>>, <<>>,
             Ok(Obj("TableSchema", _get_table_schema(DbAddColumn(d, tablename, data), tablename).val)))

\* Interface.execute_command; command is an optional text
execute_command(self, d, rj, command, args) ==
    IF ~command.some \/ command.s \notin _available_commands
    THEN Res(d, <<>>, <<>>, Raise(AttributeError(<<L("Unknown command "), V(Fmt(command))>>)))
    ELSE IF command.s \in {<<"c", "r", "e", "a", "t", "e", "_", "t", "a", "b", "l", "e">>, <<"a", "l", "t", "e", "r", "_", "t", "a", "b", "l", "e">>}
    THEN IF Len(args) # 1
         THEN Res(d, <<>>, <<>>,
                  Raise(AttributeError(<<L("command='"), V(command.s), L("' must have 1 arguments")>>)))
         ELSE LET data == model_validate_json("TableSchema", args[1])
              IN  IF ~data.ok THEN Res(d, <<>>, <<>>, data)
                  ELSE IF command.s = <<"c", "r", "e", "a", "t", "e", "_", "t", "a", "b", "l", "e">> THEN create_table(self, d, rj, data.val)
                  ELSE alter_table(self, d, rj, data.val)
    ELSE IF command.s = <<"a", "d", "d", "_", "c", "o", "l", "u", "m", "n">>
    THEN IF Len(args) # 2
         THEN Res(d, <<>>, <<>>,
                  Raise(AttributeError(<<L("command='"), V(command.s), L("' must have 2 arguments")>>)))
         ELSE LET data == model_validate_json("Column", args[2])
              IN  IF ~data.ok THEN Res(d, <<>>, <<>>, data)
                  ELSE add_column(self, d, rj, args[1].txt, data.val)
    ELSE IF command.s = <<"c", "o", "n", "n", "e", "c", "t">>
    THEN IF Len(args) # 0 THEN Res(d, <<>>, <<>>, Raise(TypeError(command.s)))
         ELSE connect(self, d, rj)
    ELSE IF command.s = <<"g", "e", "t">>
    THEN IF Len(args) \notin {1, 2} THEN Res(d, <<>>, <<>>, Raise(TypeError(command.s)))
         ELSE get(self, d, rj, args[1].txt, IF Len(args) = 2 THEN Some(args[2].txt) ELSE None)
    ELSE IF command.s = <<"d", "r", "o", "p", "_", "t", "a", "b", "l", "e">>
    THEN IF Len(args) # 1 THEN Res(d, <<>>, <<>>, Raise(TypeError(command.s)))
         ELSE drop_table(self, d, rj, args[1].txt)
    ELSE IF command.s = <<"a", "d", "d", "_", "r", "o", "w">>
    THEN IF Len(args) < 1 THEN Res(d, <<>>, <<>>, Raise(TypeError(command.s)))
         ELSE add_row(self, d, rj, args[1].txt, Tail(args))
    ELSE \* getattr(self, command) for a name that is no method
         Res(d, <<>>, <<>>,
             Raise(AttributeError(<<L("'Driver' object has no attribute '"), V(command.s), L("'")>>)))

-----------------------------------------------------------------------------
(* src/main.py *)

\* the outcome of a process: what it printed, its exit status, the database after it
Outcome(d, o, out, code) == [db |-> d, ops |-> o, stdout |-> out, exit |-> code]

\* print(answer.model_dump_json()), or pprint of it when debug is set
Printed(answer, debug) == [kind |-> "answer", pretty |-> debug, answer |-> answer]

\* the answer main builds from what execute_command returned or raised
AnswerOf(ret) ==
    IF ret.ok THEN Answer(TRUE, ret.val.cls, ret.val, <<>>)
    ELSE Answer(FALSE, "", NoData, ret.exc.msg)

\* the end of main: r is the outcome of execute_command
MainPrint(r, debug) ==
    Outcome(r.db, r.ops, Append(r.out, Printed(AnswerOf(r.ret), debug)), 0)

\* the try block of main: driver is what Driver(**kwargs) gave or raised
MainTry(driver, parsed, d, rj) ==
    IF ~driver.ok
    \* the answer is built, then `driver.debug` raises UnboundLocalError
    THEN Outcome(d, <<>>, <<>>, 1)
    ELSE MainPrint(execute_command(driver.val, d, rj, parsed.command, parsed.command_args),
                   driver.val.debug)

\* main after parse_args, which is outside the try block
MainParsed(parsed, d, rj) ==
    IF ~parsed.ok THEN Outcome(d, <<>>, <<>>, 1)
    ELSE MainTry(Interface_init(parsed.kwargs), parsed, d, rj)

\* main.main on the arguments args, the database d and the rejections rj
main(args, d, rj) == MainParsed(parse_args(args), d, rj)

-----------------------------------------------------------------------------
(* The state machine: a step is one run of the program *)

Init ==
    /\ db = <<>>
    /\ pre = <<>>
    /\ argv = <<>>
    /\ stdout = <<>>
    /\ exit = 0
    /\ ops = <<>>
    /\ ran = FALSE
    /\ castIn = [called |-> FALSE]
    /\ castOut = Ok(NULL)

\* one run of main on the arguments args, the database rejecting what rj says
Run(args, rj) ==
    \E o \in {main(args, db, rj)} :
        /\ db' = o.db
        /\ pre' = db
        /\ argv' = args
        /\ stdout' = o.stdout
        /\ exit' = o.exit
        /\ ops' = o.ops
        /\ ran' = TRUE
        /\ UNCHANGED <<castIn, castOut>>

\* what the database rejects in a run: the column statements on the columns named
\* in cols, and the table or row statement when stmt is set
Rej(cols, stmt) == [cols |-> cols, stmt |-> stmt]
NoRej == Rej({}, FALSE)

\* bounds of the model
MaxRows == 1
MaxCols == 3
MaxPageRows == 250

T_t == <<"t">>
T_u == <<"u">>
Titles == {T_t, T_u}

Sqlite == <<Word(<<"-", "-", "d", "b", "=", "s", "q", "l", "i", "t", "e">>), Word(<<"-", "-", "p", "a", "t", "h", "=", "f">>)>>
Mysql == <<Word(<<"-", "-", "d", "b", "=", "m", "y", "s", "q", "l">>), Word(<<"-", "-", "h", "o", "s", "t", "=", "h">>), Word(<<"-", "-", "p", "o", "r", "t", "=", "3", "3">>), Word(<<"-", "-", "u", "s", "e", "r", "=", "u">>),
           Word(<<"-", "-", "p", "a", "s", "s", "w", "o", "r", "d", "=", "p">>), Word(<<"-", "-", "d", "a", "t", "a", "b", "a", "s", "e", "=", "d">>)>>

\* option lists that parse_args and Interface.__init__ accept
Debug == Sqlite \o <<Word(<<"-", "-", "d", "e", "b", "u", "g", "=", "1">>)>>
Paged == Sqlite \o <<Word(<<"-", "-", "p", "a", "g", "e", "=", "2">>)>>

\* option lists that fail in parse_args or in Interface.__init__
BadOptions ==
    {<<>>,
     <<Word(<<"-", "-", "d", "b", "=", "s", "q", "l", "i", "t", "e">>)>>,
     <<Word(<<"-", "-", "d", "b", "=", "o", "r", "a", "c", "l", "e">>), Word(<<"-", "-", "p", "a", "t", "h", "=", "f">>)>>,
     <<Word(<<"-", "-", "d", "b", "=", "p", "o", "s", "t", "g", "r", "e", "s", "q", "l">>), Word(<<"-", "-", "h", "o", "s", "t", "=", "h">>), Word(<<"-", "-", "u", "s", "e", "r", "=", "u">>)>>,
     Sqlite \o <<Word(<<"-", "-", "t", "i", "m", "e", "o", "u", "t", "=", "s", "o", "o", "n">>)>>,
     Sqlite \o <<Word(<<"-", "-", "d", "e", "b", "u", "g">>)>>,
     Sqlite \o <<Word(<<"-", "-", "a", "=", "b", "=", "c">>)>>}

C_id == Column(<<"i", "d">>, FALSE, TRUE, "INTEGER")
C_a == Column(<<"a">>, TRUE, FALSE, "TEXT")
C_n == Column(<<"n">>, TRUE, FALSE, "INTEGER")
C_db == Column(<<"d", "b">>, TRUE, FALSE, "TEXT")

MainColumns == {<<C_id, C_a>>, <<C_a, C_db>>}
MainSchemas == {TableSchema(T_t, cs) : cs \in MainColumns}
StmtRej == {NoRej, Rej({}, TRUE)}
ColRej == {NoRej, Rej({<<"a">>}, FALSE), Rej({<<"i", "d">>, <<"n">>}, FALSE)}

RowsOf(d, t) == IF HasTable(d, t) THEN Len(TableOf(d, t).rows) ELSE 0

\* connect
Connect(Options) ==
    \E o \in Options : Run(o \o <<Word(<<"c", "o", "n", "n", "e", "c", "t">>)>>, NoRej)

\* get <table> [page]; the options follow the command here
Get(Options, Pages, Rejs) ==
    \E o \in Options, t \in Titles, p \in Pages, rj \in Rejs :
        Run(<<Word(<<"g", "e", "t">>), Word(t)>> \o p \o o, rj)

\* create_table <schema>
CreateTable(Options, Args, Rejs) ==
    \E o \in Options, a \in Args, rj \in Rejs :
        Run(o \o <<Word(<<"c", "r", "e", "a", "t", "e", "T", "a", "b", "l", "e">>)>> \o a, rj)

\* alter_table <schema>
AlterTable(Options, Args, Rejs) ==
    \E o \in Options, a \in Args, rj \in Rejs :
        Run(o \o <<Word(<<"a", "l", "t", "e", "r", "_", "t", "a", "b", "l", "e">>)>> \o a, rj)

\* drop_table <table>
DropTable(Options, Rejs) ==
    \E o \in Options, t \in Titles, rj \in Rejs :
        Run(o \o <<Word(<<"d", "r", "o", "p", "T", "a", "b", "l", "e">>), Word(t)>>, rj)

\* add_row <table> [values...]; a table takes at most `most` rows
AddRow(Options, Values, Rejs, most) ==
    \E o \in Options, t \in Titles, vs \in Values, rj \in Rejs :
        /\ RowsOf(db, t) < most
        /\ Run(o \o <<Word(<<"a", "d", "d", "R", "o", "w">>), Word(t)>> \o vs, rj)

\* add_column <table> <column>
AddColumn(Options, Args, Rejs) ==
    \E o \in Options, t \in Titles, a \in Args, rj \in Rejs :
        Run(o \o <<Word(<<"a", "d", "d", "_", "c", "o", "l", "u", "m", "n">>), Word(t)>> \o a, rj)

\* a command the tool does not have, or none
Unknown(Options, Commands) ==
    \E o \in Options, c \in Commands, a \in {<<>>, <<Word(T_t)>>, <<Word(T_t), Word(<<"2">>)>>} :
        Run(o \o c \o a, NoRej)

\* a run whose options parse_args or Interface.__init__ refuses
Misconfigured(Options, Commands) ==
    \E o \in Options, c \in Commands : Run(o \o c, NoRej)

Text(ws) == [i \in DOMAIN ws |-> Word(ws[i])]

MainCreateArgs ==
    {<<Json("TableSchema", s)>> : s \in MainSchemas}
        \cup {<<>>, <<Word(<<"{">>)>>, <<Json("Column", C_a)>>}
MainAlterArgs ==
    MainCreateArgs \cup {<<Json("TableSchema", TableSchema(T_u, <<C_a>>))>>}
MainColumnArgs ==
    {<<Json("Column", c)>> : c \in {C_a, C_n}} \cup {<<>>, <<Word(<<"{">>)>>}
MainValues == {<<>>, Text(<<<<"7">>, <<" ", "y", " ">>>>)}
MainPages == {<<>>, Text(<<<<"2">>>>), Text(<<<<"x">>>>), Text(<<<<"1">>, <<"2">>>>)}
UnknownCommands == {<<>>, Text(<<<<"f", "o", "o">>>>), Text(<<<<"g", "e", "t", "R", "o", "w", "s">>>>), Text(<<<<"C", "o", "n", "n", "e", "c", "t", "_">>>>)}
SomeCommands == {Text(<<<<"c", "o", "n", "n", "e", "c", "t">>>>), Text(<<<<"f", "o", "o">>>>), Text(<<<<"g", "e", "t">>, T_t>>)}

Next ==
    \/ Connect({Sqlite, Mysql, Debug})
    \/ Get({Sqlite}, MainPages, StmtRej)
    \/ Get({Paged}, {<<>>}, {NoRej})
    \/ CreateTable({Sqlite}, MainCreateArgs, StmtRej)
    \/ AlterTable({Sqlite}, MainAlterArgs, ColRej)
    \/ AlterTable({Debug}, MainCreateArgs, {Rej({<<"a">>, <<"i", "d">>}, FALSE)})
    \/ DropTable({Sqlite}, StmtRej)
    \/ AddRow({Sqlite}, MainValues, StmtRej, MaxRows)
    \/ AddColumn({Sqlite}, MainColumnArgs, {NoRej, Rej({<<"n">>}, FALSE)})
    \/ Unknown({Sqlite}, UnknownCommands)
    \/ Unknown({Debug}, {Text(<<<<"f", "o", "o">>>>)})
    \/ Misconfigured(BadOptions, {Text(<<<<"c", "o", "n", "n", "e", "c", "t">>>>)})
    \/ Misconfigured({<<Word(<<"-", "-", "d", "e", "b", "u", "g">>)>>}, {Text(<<<<"f", "o", "o">>>>), Text(<<<<"g", "e", "t">>, T_t>>)})

Spec == Init /\ [][Next]_vars

-----------------------------------------------------------------------------
(* alter_table alone: one run on each table of up to MaxCols columns *)

SeqsUpTo(S, n) == UNION {[1..k -> S] : k \in 0..n}

U_a == Column(<<"a">>, TRUE, FALSE, "TEXT")
U_b == Column(<<"b">>, TRUE, FALSE, "INTEGER")
U_c == Column(<<"c">>, TRUE, FALSE, "BOOLEAN")
U_d == Column(<<"d">>, TRUE, FALSE, "TEXT")
U_d2 == Column(<<"d">>, FALSE, FALSE, "INTEGER")
\* the columns of the tables, and the columns of the schemas asked for
AlterColumns == {U_a, U_b, U_c, U_d}
AskedColumns == {U_b, U_c, U_d, U_d2}

\* the column lists a table can have: no two columns of one name
TableColumns(S, n) == {cs \in SeqsUpTo(S, n) : cs # <<>> /\ DistinctNames(cs)}
\* a database of one table t without rows
OneTable(cs) == <<[title |-> T_t, columns |-> cs, rows |-> <<>>]>>

InitWith(Databases) ==
    /\ db \in Databases
    /\ pre = db
    /\ argv = <<>>
    /\ stdout = <<>>
    /\ exit = 0
    /\ ops = <<>>
    /\ ran = FALSE
    /\ castIn = [called |-> FALSE]
    /\ castOut = Ok(NULL)

InitAlter == InitWith({OneTable(cs) : cs \in TableColumns(AlterColumns, MaxCols)})

AlterArgs ==
    {<<Json("TableSchema", TableSchema(T_t, cs))>> : cs \in SeqsUpTo(AskedColumns, MaxCols)}
AlterRej == {NoRej, Rej({<<"a">>}, FALSE), Rej({<<"d">>}, FALSE)}

\* the one run of alter_table
AlterOnce == ~ran /\ AlterTable({Sqlite, Debug}, AlterArgs, AlterRej)

NextAlter == AlterOnce

SpecAlter == InitAlter /\ [][NextAlter]_vars

-----------------------------------------------------------------------------
(* add_row alone: one run on each table of up to MaxCols columns *)

R_id == Column(<<"i", "d">>, FALSE, TRUE, "INTEGER")
R_name == Column(<<"n", "a", "m", "e">>, TRUE, FALSE, "TEXT")
R_age == Column(<<"a", "g", "e">>, TRUE, FALSE, "INTEGER")
R_db == Column(<<"d", "b">>, TRUE, FALSE, "TEXT")
RowColumns == {R_id, R_name, R_age, R_db}

InitRow == InitWith({OneTable(cs) : cs \in TableColumns(RowColumns, MaxCols)})

RowOptions ==
    {Sqlite,
     Mysql,
     Sqlite \o <<Word(<<"-", "-", "n", "a", "m", "e", "=", "B", "o", "b">>)>>,
     Sqlite \o <<Word(<<"-", "-", "i", "d", "=", "5">>), Word(<<"-", "-", "p", "a", "g", "e", "=", "2">>)>>,
     Sqlite \o <<Word(<<"-", "-", "a", "g", "e", "=", "x">>)>>}
RowValues == {Text(vs) : vs \in SeqsUpTo({<<"A", "l", "i", "c", "e">>, <<"3", "0">>, <<" ", "7", " ">>}, MaxCols)}

\* the one run of add_row
AddRowOnce == ~ran /\ AddRow(RowOptions, RowValues, StmtRej, 1)

NextRow == AddRowOnce

SpecRow == InitRow /\ [][NextRow]_vars

-----------------------------------------------------------------------------
(* get alone: one run on a table of up to MaxPageRows rows *)

\* the table t of columns id and a, holding n rows
Filled(n) ==
    <<[title |-> T_t, columns |-> <<C_id, C_a>>,
       rows |-> [i \in 1..n |-> [c \in {<<"i", "d">>, <<"a">>} |->
                    IF c = <<"i", "d">> THEN IntV(i) ELSE StrV(<<"x">>)]]]>>

InitPage == InitWith({Filled(n) : n \in 0..MaxPageRows})

PageOptions == {Sqlite, Sqlite \o <<Word(<<"-", "-", "p", "a", "g", "e", "=", "1">>)>>, Sqlite \o <<Word(<<"-", "-", "p", "a", "g", "e", "=", "3">>)>>}
PageArgs == {<<>>} \cup {Text(<<p>>) : p \in {<<"1">>, <<"2">>, <<" ", "3">>, <<"4">>, <<"0">>, <<"x">>}}

\* the one run of get
GetOnce == ~ran /\ Get(PageOptions, PageArgs, StmtRej)

NextPage == GetOnce

SpecPage == InitPage /\ [][NextPage]_vars

-----------------------------------------------------------------------------
(* cast_sql_value alone *)

RawValues ==
    {None} \cup {Some(s) : s \in
        {<<>>, <<" ">>, <<"1", "2">>, <<" ", "1", "2", " ">>, <<"-", "7">>, <<"1", "_", "0", "0", "0">>, <<"1", "2", ".", "5">>, <<"1", "e", "3">>, <<".", "5">>, <<"a", "b", "c">>,
         <<"t", "r", "u", "e">>, <<"T", "R", "U", "E">>, <<" ", "Y", "e", "s", "\t">>, <<"o", "n">>, <<"1">>, <<"0">>, <<"o", "f", "f">>, <<"b", "a", "n", "a", "n", "a">>, <<"n", "a", "n">>,
         <<"2", "0", "2", "4", "-", "0", "1", "-", "3", "1">>, <<"2", "0", "2", "3", "-", "0", "2", "-", "2", "9">>, <<"2", "0", "2", "4", "-", "0", "1", "-", "3", "1", "T", "1", "0", ":", "2", "0", ":", "3", "0">>, <<"1", "0", ":", "2", "0">>, <<"2", "5", ":", "0", "0">>,
         <<"1", "2", "3", "4", "5", "6", "7", "8", "-", "1", "2", "3", "4", "-", "5", "6", "7", "8", "-", "1", "2", "3", "4", "-", "5", "6", "7", "8", "1", "2", "3", "4", "5", "6", "7", "8">>, <<"{", "1", "2", "3", "4", "5", "6", "7", "8", "1", "2", "3", "4", "5", "6", "7", "8", "1", "2", "3", "4", "5", "6", "7", "8", "1", "2", "3", "4", "5", "6", "7", "8", "}">>,
         <<"1", "2", "3", "4">>, <<"a", "G", "V", "s", "b", "G", "8", "=">>, <<"a", "G", "V", "s", "b", "G", "8">>, <<"a", "G", "k">>}}

\* a call of cast_sql_value
Cast ==
    \E r \in RawValues, t \in ColumnTypes :
        /\ castIn' = [called |-> TRUE, raw |-> r, type |-> t]
        /\ castOut' = cast_sql_value(r, t)
        /\ UNCHANGED <<db, pre, argv, stdout, exit, ops, ran>>

NextCast == Cast

SpecCast == Init /\ [][NextCast]_vars

-----------------------------------------------------------------------------
(* What the last run was asked, read back from its arguments *)

Parsed == parse_args(argv)
Driven == Interface_init(Parsed.kwargs)
\* execute_command was called in the last run
Dispatched == ran /\ Parsed.ok /\ Driven.ok
Command == Parsed.command
Args == Parsed.command_args
Called(name) == Dispatched /\ Command = Some(name)

\* the answers printed by the last run
Envelopes == SelectSeq(stdout, LAMBDA x : x.kind = "answer")
\* the last thing printed, when it is an answer
Reply == stdout[Len(stdout)].answer
Replied == stdout # <<>> /\ stdout[Len(stdout)].kind = "answer"

\* the statements of one kind among those the last run sent
OpsOf(kind) == SelectSeq(ops, LAMBDA x : x.op = kind)
\* the elements of s at the positions in K, in order
Pick(s, K) ==
    [k \in 1..Cardinality(K) |->
        s[CHOOSE i \in K : Cardinality({j \in K : j < i}) = k - 1]]
IsPrefix(s, t) == Len(s) <= Len(t) /\ SubSeq(t, 1, Len(s)) = s

-----------------------------------------------------------------------------
(* C1 *)

\* C1: every run of main ends normally (exit 0) with exactly one Answer
\* printed, and when parse_args or the construction of the driver fails that
\* answer has ok = false.  (As the claim states it; the code does otherwise.)
C1_EveryErrorAnswered ==
    ran => /\ exit = 0
           /\ Len(Envelopes) = 1
           /\ (~Parsed.ok \/ ~Driven.ok) => ~Envelopes[1].answer.ok

-----------------------------------------------------------------------------
(* C2 *)

ClaimedCommands ==
    {<<"c", "o", "n", "n", "e", "c", "t">>, <<"g", "e", "t">>, <<"c", "r", "e", "a", "t", "e", "_", "t", "a", "b", "l", "e">>, <<"a", "l", "t", "e", "r", "_", "t", "a", "b", "l", "e">>, <<"d", "r", "o", "p", "_", "t", "a", "b", "l", "e">>, <<"a", "d", "d", "_", "r", "o", "w">>,
     <<"a", "d", "d", "_", "c", "o", "l", "u", "m", "n">>}

UnknownCalled == Dispatched /\ (~Command.some \/ Command.s \notin ClaimedCommands)

\* C2: when execute_command is called with a command outside the seven, the run
\* prints the one answer {ok: false, "Unknown command <name>"}, sends nothing
\* to the database and leaves the database as it was.
C2_UnknownCommand ==
    UnknownCalled =>
        /\ stdout = <<Printed(Answer(FALSE, "", NoData,
                                     <<L("Unknown command "), V(Fmt(Command))>>),
                              Driven.val.debug)>>
        /\ ops = <<>>
        /\ db = pre
        /\ exit = 0

C2_Witness ==
    /\ UnknownCalled
    /\ Command = Some(<<"f", "o", "o">>)
    /\ Args # <<>>
    /\ pre # <<>>

-----------------------------------------------------------------------------
(* C3, C4, C5: alter_table *)

\* alter_table was called with a schema for a table the database had
AlterRan ==
    /\ Called(<<"a", "l", "t", "e", "r", "_", "t", "a", "b", "l", "e">>)
    /\ Len(Args) = 1
    /\ Args[1].json.kind = "TableSchema"
    /\ HasTable(pre, Args[1].json.v.title)
Desired == Args[1].json.v
Existing == TableOf(pre, Desired.title).columns
Live == TableOf(db, Desired.title).columns

AddsIssued == [i \in DOMAIN OpsOf("add_column") |-> OpsOf("add_column")[i].arg]
DropsAttempted == [i \in DOMAIN OpsOf("drop_column") |-> OpsOf("drop_column")[i].arg[1]]
NoAddRejected == \A i \in DOMAIN ops : ops[i].op = "add_column" => ops[i].ok
NoDropRejected == \A i \in DOMAIN ops : ops[i].op = "drop_column" => ops[i].ok

\* the desired columns whose name the table lacks, in the order of the schema
Lacking == SelectSeq(Desired.columns, LAMBDA c : ~HasColumn(Existing, c.name))
\* the names of the table that the schema lacks, in the order of the table
Surplus == SelectSeq(Names(Existing), LAMBDA n : ~HasColumn(Desired.columns, n))

\* C3 as the claim states it: the adds issued are exactly the desired columns
\* whose name the table lacks, the drops attempted exactly the names the schema
\* lacks.
C3_Original ==
    AlterRan => AddsIssued = Lacking /\ DropsAttempted = Surplus

\* for each name the table lacks, the last desired column of that name, at the
\* place of the first
LackingOnce ==
    LET cs == Desired.columns
        firsts == {i \in DOMAIN cs :
                      /\ ~HasColumn(Existing, cs[i].name)
                      /\ \A j \in 1..(i - 1) : cs[j].name # cs[i].name}
        last(i) == CHOOSE j \in DOMAIN cs :
                      /\ cs[j].name = cs[i].name
                      /\ \A k \in (j + 1)..Len(cs) : cs[k].name # cs[i].name
    IN  Pick([i \in DOMAIN cs |-> cs[last(i)]], firsts)

\* C3, amended: one add per name the table lacks (the last desired column of
\* that name, at the place of the first), then the drops of the names the
\* schema lacks, in the order of the table; an add the database rejects ends
\* alter_table with the later adds not issued and no drop attempted.
C3_Diff ==
    AlterRan =>
        IF NoAddRejected
        THEN AddsIssued = LackingOnce /\ DropsAttempted = Surplus
        ELSE /\ IsPrefix(AddsIssued, LackingOnce)
             /\ ~OpsOf("add_column")[Len(AddsIssued)].ok
             /\ DropsAttempted = <<>>
             /\ ~Reply.ok

C3_Witness ==
    /\ AlterRan
    /\ Names(Existing) = <<<<"a">>, <<"b">>, <<"c">>>>
    /\ Names(Desired.columns) = <<<<"b">>, <<"c">>, <<"d">>>>
    /\ Names(AddsIssued) = <<<<"d">>>>
    /\ DropsAttempted = <<<<"a">>>>

\* alter_table returned
AlterDone == AlterRan /\ Replied /\ Reply.ok

\* nothing is left to add or to drop, and alter_table run again sends no add and
\* no drop
Converged ==
    /\ \A i \in DOMAIN Desired.columns : HasColumn(Live, Desired.columns[i].name)
    /\ \A i \in DOMAIN Live : HasColumn(Desired.columns, Live[i].name)
    /\ \A o \in Range(alter_table(Driven.val, db, NoRej, Desired).ops) : o.op = "reflect"

\* C4 as the claim states it: once alter_table has returned, the table has
\* converged on the schema.
C4_Original == AlterDone => Converged

\* C4, amended: once alter_table has returned without a rejected drop, the table
\* has converged on the schema.
C4_Idempotent == (AlterDone /\ NoDropRejected) => Converged

C4_Witness ==
    /\ AlterDone
    /\ NoDropRejected
    /\ AddsIssued # <<>>
    /\ DropsAttempted # <<>>
    /\ Converged

SomeDropRejected == \E i \in DOMAIN ops : ops[i].op = "drop_column" /\ ~ops[i].ok

\* C5: no add follows a drop; and when a drop is rejected, every name the schema
\* lacks is still tried, the rejected column stays, the adds made stay, and
\* alter_table returns the schema it was given.
C5_DropsIndependent ==
    AlterRan =>
        /\ \A i, j \in DOMAIN ops :
              (ops[i].op = "drop_column" /\ ops[j].op = "add_column") => j < i
        /\ SomeDropRejected =>
              /\ DropsAttempted = Surplus
              /\ \A i \in DOMAIN ops :
                    /\ (ops[i].op = "drop_column" /\ ops[i].ok) => ~HasColumn(Live, ops[i].arg[1])
                    /\ (ops[i].op = "drop_column" /\ ~ops[i].ok) => HasColumn(Live, ops[i].arg[1])
                    /\ ops[i].op = "add_column" => ops[i].ok /\ ops[i].arg \in Range(Live)
              /\ exit = 0
              /\ Replied
              /\ Reply = Answer(TRUE, "TableSchema", Obj("TableSchema", Desired), <<>>)

C5_Witness ==
    /\ AlterRan
    /\ AddsIssued # <<>>
    /\ Len(OpsOf("drop_column")) = 2
    /\ ~OpsOf("drop_column")[1].ok
    /\ OpsOf("drop_column")[2].ok
    /\ Reply.ok

-----------------------------------------------------------------------------
(* C6, C9: add_row *)

\* add_row was called for a table the database had
RowRan ==
    /\ Called(<<"a", "d", "d", "_", "r", "o", "w">>)
    /\ Len(Args) >= 1
    /\ HasTable(pre, Args[1].txt)
RowTable == TableOf(pre, Args[1].txt)
Positional == Tail(Args)
Inserts == OpsOf("insert")

\* column j takes positional values: it has no override and is no primary key
Takes(cols, ov, j) == cols[j].name \notin DOMAIN ov /\ ~cols[j].primary_key
\* the text column j is given, if any
RawFor(cols, ov, data, j) ==
    LET rank == Cardinality({k \in 1..j : Takes(cols, ov, k)})
    IN  IF cols[j].name \in DOMAIN ov THEN Some(ov[cols[j].name])
        ELSE IF Takes(cols, ov, j) /\ rank <= Len(data) THEN Some(data[rank].txt)
        ELSE None
Assigned(cols, ov, data) == {j \in DOMAIN cols : RawFor(cols, ov, data, j).some}
Castable(cols, ov, data) ==
    \A j \in Assigned(cols, ov, data) :
        cast_sql_value(RawFor(cols, ov, data, j), cols[j].type).ok
\* the mapping to insert, by the rule of the walk
Expected(cols, ov, data) ==
    [n \in {cols[j].name : j \in Assigned(cols, ov, data)} |->
        LET j == CHOOSE k \in DOMAIN cols : cols[k].name = n
        IN  cast_sql_value(RawFor(cols, ov, data, j), cols[j].type).val]

\* C6: the row add_row inserts gives each column its override if it has one,
\* else, if it is no primary key, the next unused positional value while there
\* is one, and nothing otherwise, each cast to the column's type; when a value
\* cannot be cast nothing is inserted.
C6_RowWalk ==
    RowRan =>
        IF Castable(RowTable.columns, Driven.val.kwargs, Positional)
        THEN /\ Len(Inserts) = 1
             /\ Inserts[1].arg = Expected(RowTable.columns, Driven.val.kwargs, Positional)
        ELSE Inserts = <<>> /\ ~Reply.ok

C6_Witness ==
    /\ RowRan
    /\ Names(RowTable.columns) = <<<<"i", "d">>, <<"n", "a", "m", "e">>, <<"a", "g", "e">>>>
    /\ RowTable.columns[1].primary_key
    /\ [i \in DOMAIN Positional |-> Positional[i].txt] = <<<<"A", "l", "i", "c", "e">>, <<"3", "0">>>>
    /\ Len(Inserts) = 1
    /\ Inserts[1].arg = (<<"n", "a", "m", "e">> :> StrV(<<"A", "l", "i", "c", "e">>)) @@ (<<"a", "g", "e">> :> IntV(30))
    /\ Inserts[1].ok

RecognizedKeys ==
    {K_db, K_path, K_host, K_user, K_password, K_database, K_port, K_echo, K_timeout,
     K_debug, K_page}

\* C9 as the claim states it: the overrides of add_row are the options whose
\* key is no recognized connection key, so the row inserted is the one the walk
\* gives with those overrides.
C9_OverridesAreOtherOptions ==
    (RowRan /\ Inserts # <<>>) =>
        /\ Castable(RowTable.columns, DictPop(Parsed.kwargs, RecognizedKeys), Positional)
        /\ Inserts[1].arg =
              Expected(RowTable.columns, DictPop(Parsed.kwargs, RecognizedKeys), Positional)

-----------------------------------------------------------------------------
(* C7: get *)

\* get was called for a table the database had, and returned
GetRan ==
    /\ Called(<<"g", "e", "t">>)
    /\ Len(Args) \in {1, 2}
    /\ HasTable(pre, Args[1].txt)
    /\ Replied
    /\ Reply.ok
PageTable == TableOf(pre, Args[1].txt)
Rendered(columns, row) == [j \in DOMAIN columns |-> PyStr(RowTuple(columns, row)[j])]
\* rows (p-1)*100+1 .. min(p*100, N), rendered
RowsAt(p) ==
    LET lo == (p - 1) * 100 + 1
        hi == IF p * 100 < Len(PageTable.rows) THEN p * 100 ELSE Len(PageTable.rows)
    IN  [k \in 1..(IF hi >= lo THEN hi - lo + 1 ELSE 0) |->
            Rendered(PageTable.columns, PageTable.rows[lo + k - 1])]
PageIs(p) ==
    /\ Reply.data.cls = "TableData"
    /\ Reply.data.v.page = p
    /\ Reply.data.v.data = RowsAt(p)
    /\ Reply.data.v.count = Len(Reply.data.v.data)
    /\ Reply.data.v.count <= 100
    /\ (Len(PageTable.rows) = 250 /\ p = 2) =>
            /\ Reply.data.v.count = 100
            /\ Reply.data.v.data[1][1] = <<"1", "0", "1">>
            /\ Reply.data.v.data[100][1] = <<"2", "0", "0">>
    /\ (Len(PageTable.rows) = 250 /\ p = 3) => Reply.data.v.count = 50

\* the page given as the second positional argument, 1 when there is none
HasPositionalPage == Len(Args) = 1 \/ PyInt(Args[2].txt).ok
PositionalPage == IF Len(Args) = 1 THEN 1 ELSE PyInt(Args[2].txt).val.n
\* the page get works with: the option --page when there is one
HasOptionPage == K_page \in DOMAIN Driven.val.kwargs
EffectivePage ==
    IF HasOptionPage THEN PyInt(Driven.val.kwargs[K_page]).val.n ELSE PositionalPage

\* C7 as the claim states it: get returns the page given as its second argument.
C7_Original ==
    (GetRan /\ Len(Args) = 2 /\ HasPositionalPage /\ PositionalPage >= 1) =>
        PageIs(PositionalPage)

\* C7, amended: get returns the page named by the option --page when there is
\* one, else by its argument, else page 1: rows (p-1)*100+1 to min(p*100, N),
\* their number as count, p as page.
C7_Paging ==
    (GetRan /\ EffectivePage >= 1) => PageIs(EffectivePage)

C7_Witness ==
    /\ GetRan
    /\ ~HasOptionPage
    /\ Len(Args) = 2
    /\ PositionalPage = 2
    /\ Len(PageTable.rows) = 250
    /\ Reply.data.v.count = 100
    /\ Reply.data.v.data[1][1] = <<"1", "0", "1">>

-----------------------------------------------------------------------------
(* C8: a table that is not there *)

\* one of the five commands was called, well formed
TableCall ==
    \/ /\ Called(<<"g", "e", "t">>)
       /\ Len(Args) \in {1, 2}
       /\ IF HasOptionPage THEN PyInt(Driven.val.kwargs[K_page]).ok ELSE HasPositionalPage
    \/ Called(<<"a", "l", "t", "e", "r", "_", "t", "a", "b", "l", "e">>) /\ Len(Args) = 1 /\ Args[1].json.kind = "TableSchema"
    \/ Called(<<"d", "r", "o", "p", "_", "t", "a", "b", "l", "e">>) /\ Len(Args) = 1
    \/ Called(<<"a", "d", "d", "_", "r", "o", "w">>) /\ Len(Args) >= 1
    \/ Called(<<"a", "d", "d", "_", "c", "o", "l", "u", "m", "n">>) /\ Len(Args) = 2 /\ Args[2].json.kind = "Column"
CalledTitle ==
    IF Command = Some(<<"a", "l", "t", "e", "r", "_", "t", "a", "b", "l", "e">>) THEN Args[1].json.v.title ELSE Args[1].txt

\* C8 as the claim states it: called for a table the database has not, each of
\* the five commands answers "Table ... not found", has sent the database
\* nothing but reflection, and the database is as it was.
C8_MissingTable ==
    (TableCall /\ ~HasTable(pre, CalledTitle)) =>
        /\ Replied
        /\ Reply = Answer(FALSE, "", NoData, NotFound(CalledTitle).msg)
        /\ \A i \in DOMAIN ops : ops[i].op = "reflect"
        /\ db = pre

-----------------------------------------------------------------------------
(* C10: cast_sql_value *)

\* the types the match statement of the specification lists
ListedTypes ==
    {"INTEGER", "SMALLINT", "BIGINT", "REAL", "FLOAT", "DOUBLE", "DOUBLE_PRECISION",
     "NUMERIC", "DECIMAL", "BOOLEAN", "TIMESTAMP", "DATETIME", "DATE", "TIME", "UUID",
     "BLOB", "BINARY", "VARBINARY", "TEXT", "CLOB", "VARCHAR", "NVARCHAR", "CHAR", "NCHAR"}

\* texts that are no literal of the type
Malformed ==
    {<<<<"1", "2", ".", "5">>, "INTEGER">>, <<<<"a", "b", "c">>, "BIGINT">>, <<<<"a", "b", "c">>, "FLOAT">>,
     <<<<"b", "a", "n", "a", "n", "a">>, "DECIMAL">>, <<<<"2", "0", "2", "3", "-", "0", "2", "-", "2", "9">>, "DATE">>, <<<<"2", "5", ":", "0", "0">>, "TIME">>,
     <<<<"a", "b", "c">>, "DATETIME">>, <<<<"1", "2", "3", "4">>, "UUID">>, <<<<"a", "G", "V", "s", "b", "G", "8">>, "BLOB">>}

IsCastError(r) ==
    /\ ~r.ok
    /\ r.exc.class = "ValueError"
    /\ r.exc.msg[1] = L("Error while casting value '")

\* C10: cast_sql_value returns a value or raises the one cast error; null gives
\* null for every type; BOOLEAN never fails and is true exactly for 1, true,
\* yes, on (trimmed, in any case); a text that is no literal of its type, and
\* any type outside the listed families, raise the cast error.
C10_CastTotal ==
    castIn.called =>
        /\ castOut.ok \/ IsCastError(castOut)
        /\ ~castIn.raw.some => castOut = Ok(NULL)
        /\ (castIn.raw.some /\ castIn.type = "BOOLEAN") =>
              castOut = Ok(BoolV(LowerStr(Strip(castIn.raw.s)) \in
                                    {<<"1">>, <<"t", "r", "u", "e">>, <<"y", "e", "s">>, <<"o", "n">>}))
        /\ (castIn.raw.some /\ <<castIn.raw.s, castIn.type>> \in Malformed) =>
              IsCastError(castOut)
        /\ (castIn.raw.some /\ castIn.type \notin ListedTypes) => IsCastError(castOut)

C10_Witness ==
    /\ castIn.called
    /\ castIn.raw = Some(<<"1", "2", ".", "5">>)
    /\ castIn.type = "INTEGER"
    /\ IsCastError(castOut)

=============================================================================
